---- MODULE Spec2Model ----
(***************************************************************************)
(* DecTree (src/src/dectree/core.py): the run() loop over tiles and files, *)
(* the per-file pipeline __process_chmap (align, classify, expand, label,  *)
(* write) and the constructor's database-seeding configuration.            *)
(*                                                                         *)
(* Grids are functions over Cells(w, h); band samples are integers (the    *)
(* thresholds of the source are integral, and the input sets below hold    *)
(* every value on, just inside and just outside each threshold).           *)
(***************************************************************************)
EXTENDS Integers, Sequences, FiniteSets, TLC

\* ------------------------------------------------------------------ bounds
\* Most files in one tile directory.
MaxFiles == 2
\* Width and height of the window of the proximity inputs.
GridW == 7
GridH == 6
\* Most co-detected cells placed in a proximity input.
MaxSeeds == 2

\* ------------------------------------------------- constants of the source
\* gdal.ComputeProximity options (core.py:280).
VALUES == 2
MAXDIST == 5
NODATA == 255
FIXED_BUF_VAL == 0
\* The no-data label of the output (core.py:293, 297, 307).
NoDataLabel == 255

\* --------------------------------------------------------------- the grids
Cells(w, h) == (1..w) \X (1..h)

\* A numpy array as read by ReadAsArray: its shape and its samples.
Array(w, h, f) == [xsize |-> w, ysize |-> h, v |-> f]

Fill(w, h, x) == Array(w, h, [c \in Cells(w, h) |-> x])

\* Mutant of SameShape: only the widths are compared.
SameWidth(a, b) == a.xsize = b.xsize

\* Two arrays of one shape: what a boolean-mask index requires (core.py:251).
SameShape(a, b) == a.xsize = b.xsize /\ a.ysize = b.ysize

CellsOf(a) == Cells(a.xsize, a.ysize)

\* ----------------------------------------------------- ThresholdClassifier
\* Mutant of StrongRaw: the lower blue bound of the weak rule slipped below it.
StrongRawLooseBlue(blue, red, nir, kisqr) ==
    /\ (blue < 10 /\ blue > 0)
    /\ (red < -1 /\ red > -5)
    /\ (nir < -1 /\ nir > -5)
    /\ (kisqr < 1500 /\ kisqr > 150)

\* np.logical_and(...) of core.py:225-232, per cell.
StrongRaw(blue, red, nir, kisqr) ==
    /\ (blue < 10 /\ blue > 2)
    /\ (red < -1 /\ red > -5)
    /\ (nir < -1 /\ nir > -5)
    /\ (kisqr < 1500 /\ kisqr > 150)

\* np.logical_and(...) of core.py:235-242, per cell (-0.0 is 0).
WeakRaw(blue, red, nir, kisqr) ==
    /\ (blue < 11 /\ blue > 1)
    /\ (red < 0 /\ red > -6)
    /\ (nir < 0 /\ nir > -6)
    /\ (kisqr < 2000 /\ kisqr > 100)

\* a[mask] = x
Assign(a, mask, x) ==
    [c \in DOMAIN a |-> IF c \in DOMAIN mask /\ mask[c] THEN x ELSE a[c]]

\* nodata_mask = kisqr_band >= 2000
nodata_mask(bands) == [c \in CellsOf(bands) |-> bands.v[c].kisqr >= 2000]

\* other_classes = np.isin(lc_sub_array, [2, 3, 4, 5, 6])
other_classes(lc) == [c \in CellsOf(lc) |-> lc.v[c] \in {2, 3, 4, 5, 6}]

\* core.py:225-232, 251-252: total_change_strong with the excluded classes and
\* the no-data cells set to 0.
StrongGrid(bands, lc) ==
    LET raw == [c \in CellsOf(bands) |->
                   StrongRaw(bands.v[c].blue, bands.v[c].red, bands.v[c].nir,
                             bands.v[c].kisqr)]
    IN  Assign(Assign(raw, other_classes(lc), FALSE), nodata_mask(bands), FALSE)

\* core.py:235-242, 255-256: total_change_weak with the excluded classes and
\* the no-data cells set to 0.
WeakGrid(bands, lc) ==
    LET raw == [c \in CellsOf(bands) |->
                   WeakRaw(bands.v[c].blue, bands.v[c].red, bands.v[c].nir,
                           bands.v[c].kisqr)]
    IN  Assign(Assign(raw, other_classes(lc), FALSE), nodata_mask(bands), FALSE)

BoolToInt(b) == IF b THEN 1 ELSE 0

\* sum_change = np.add(total_change_strong, total_change_weak, dtype=int)
SumChange(strong, weak) ==
    [c \in DOMAIN strong |-> BoolToInt(strong[c]) + BoolToInt(weak[c])]

\* ----------------------------------------------------- ConfidenceExpansion
\* Squared pixel distance between two cell centres.
DistSq(c, t) == (c[1] - t[1]) * (c[1] - t[1]) + (c[2] - t[2]) * (c[2] - t[2])

\* Mutant of ComputeProximity: the distance is the chessboard distance.
ComputeProximityChessboard(src) ==
    [c \in DOMAIN src |->
        IF src[c] = VALUES THEN 0
        ELSE IF \E t \in DOMAIN src :
                    /\ src[t] = VALUES
                    /\ c[1] - t[1] <= MAXDIST /\ t[1] - c[1] <= MAXDIST
                    /\ c[2] - t[2] <= MAXDIST /\ t[2] - c[2] <= MAXDIST
             THEN FIXED_BUF_VAL
             ELSE NODATA]

\* gdal.ComputeProximity(sum_band, prx_band, VALUES=2, MAXDIST=5,
\* DISTUNITS=PIXEL, NODATA=255, FIXED_BUF_VAL=0): a target cell is 0, a cell
\* whose distance to the nearest target cell, measured between the cell
\* centres in pixels, is at most MAXDIST holds FIXED_BUF_VAL, every other cell
\* holds NODATA.
ComputeProximity(src) ==
    [c \in DOMAIN src |->
        IF src[c] = VALUES THEN 0
        ELSE IF \E t \in DOMAIN src :
                    src[t] = VALUES /\ DistSq(c, t) <= MAXDIST * MAXDIST
             THEN FIXED_BUF_VAL
             ELSE NODATA]

\* Mutant of TotalChange: every cell near a seed is kept, weak or not.
TotalChangeNearOnly(weak, prx) == [c \in DOMAIN weak |-> prx[c] = 0]

\* total_change = np.logical_and(total_change_weak, prx_array == 0)
TotalChange(weak, prx) == [c \in DOMAIN weak |-> weak[c] /\ prx[c] = 0]

\* ----------------------------------------------------------- LabelAssigner
\* Mutant of MaskFchm: every non-zero mask value vetoes.
MaskFchmNonZero(fm) == [c \in CellsOf(fm) |-> fm.v[c] # 0]

\* mask_fchm = fm_sub_array == 1
MaskFchm(fm) == [c \in CellsOf(fm) |-> fm.v[c] = 1]

\* final_array[mask_fchm] = 255, the veto of core.py:297.
Veto(a, mask) == Assign(a, mask, NoDataLabel)

\* core.py:286-295: the labels before the veto.
Labels(total, lc) ==
    LET forest_changes == [c \in DOMAIN total |-> total[c] /\ lc.v[c] = 0]
        rangeland_changes == [c \in DOMAIN total |-> total[c] /\ lc.v[c] = 1]
        full == [c \in DOMAIN total |-> NoDataLabel]
    IN  Assign(Assign(full, forest_changes, 0), rangeland_changes, 1)

\* Mutant of FinalArray: the veto of line 297 is left out.
FinalArrayNoVeto(total, lc, fm) == Labels(total, lc)

\* core.py:286-297: final_array.
FinalArray(total, lc, fm) == Veto(Labels(total, lc), MaskFchm(fm))

\* -------------------------------------------------- RasterGeometry, aligner
\* int(): truncation toward zero of the quotient a / b.
TruncDiv(a, b) ==
    LET q == (IF a < 0 THEN -a ELSE a) \div (IF b < 0 THEN -b ELSE b)
    IN  IF (a < 0) = (b < 0) THEN q ELSE -q

Max(a, b) == IF a >= b THEN a ELSE b
Min(a, b) == IF a <= b THEN a ELSE b

\* A dataset's geotransform and size: xmin, xpixel, ymax, ypixel (negative),
\* RasterXSize, RasterYSize.
Raster(x0, px, y0, py, xs, ys) ==
    [xmin |-> x0, xpixel |-> px, ymax |-> y0, ypixel |-> py,
     RasterXSize |-> xs, RasterYSize |-> ys]

\* __getBBox: the bounding rectangle of a dataset.
getBBox(ds) ==
    [xmin |-> ds.xmin,
     xmax |-> ds.xmin + ds.RasterXSize * ds.xpixel,
     ymin |-> ds.ymax + ds.RasterYSize * ds.ypixel,
     ymax |-> ds.ymax]

\* lc_bbox.Intersection(trg_bbox): the common rectangle (empty or degenerate
\* when the rectangles are disjoint or only touch).
Intersection(a, b) ==
    [xmin |-> Max(a.xmin, b.xmin), xmax |-> Min(a.xmax, b.xmax),
     ymin |-> Max(a.ymin, b.ymin), ymax |-> Min(a.ymax, b.ymax)]

\* intersection.Area()
Area(g) ==
    IF g.xmax > g.xmin /\ g.ymax > g.ymin
    THEN (g.xmax - g.xmin) * (g.ymax - g.ymin)
    ELSE 0

\* if intersection is not None and intersection.Area() > 0
HasOverlap(lc_ds, trg_ds) == Area(Intersection(getBBox(lc_ds), getBBox(trg_ds))) > 0

\* core.py:195-206: the pixel window of the envelope g in dataset ds:
\* int(ulX), int(ulY), int(lrX - ulX), int(lrY - ulY).
PixelWindow(ds, g) ==
    [xoff |-> TruncDiv(g.xmin - ds.xmin, ds.xpixel),
     yoff |-> TruncDiv(g.ymax - ds.ymax, ds.ypixel),
     xsize |-> TruncDiv(g.xmax - g.xmin, ds.xpixel),
     ysize |-> TruncDiv(g.ymin - g.ymax, ds.ypixel)]

\* band.ReadAsArray(xoff, yoff, xsize, ysize) over a raster of the sample x:
\* an array of the window's shape (no cells when the window is empty).
ReadAsArray(ds, w, x) == Fill(w.xsize, w.ysize, x)

\* ------------------------------------------------------------------- state
VARIABLES
    seed_db,              \* self.seed_db: "unset" (no such attribute), "None", "True"
    lc_ds,                \* the land-cover raster (self.landcover), as a Raster
    tiles,                \* os.listdir: per tile directory, its files in order
    fs,                   \* the output tree: path -> file
    ti, fi,               \* run(): the tile and the file being handled
    pc,                   \* the program's position
    exc,                  \* the exception that left run(), or "none"
    calls,                \* __process_chmap calls made for the file being handled
    result,               \* how that call ended: "none", "no_overlap", "returned"
    trg_ds,               \* the warped target raster
    lc_sub_array, fm_sub_array, image_bands,
    total_change_strong, total_change_weak, sum_change, prx_array,
    total_change, final_array,
    handles               \* the raster datasets __process_chmap holds open

config == <<seed_db, lc_ds, tiles>>
loop == <<ti, fi, calls, result>>
inputs == <<trg_ds, lc_sub_array, fm_sub_array, image_bands>>
grids == <<total_change_strong, total_change_weak, sum_change, prx_array,
           total_change, final_array>>
vars == <<config, fs, loop, pc, exc, inputs, grids, handles>>

\* ------------------------------------------------------- names and the tree
\* The tile directories of the input tree.
TileDirs == {1, 2}

\* File names as token sequences (the tokens stand for the parts between '_');
\* the i-th file of a tile directory.
FileId == <<"A", "B", "C", "D">>

Name(i) == <<"S2", "CHMAP", FileId[i]>>

Names == {Name(i) : i \in 1..MaxFiles}

\* file.replace('CHMAP', 'BIN')
Replace(file) ==
    [i \in DOMAIN file |-> IF file[i] = "CHMAP" THEN "BIN" ELSE file[i]]

\* The listings of one tile directory: it holds up to MaxFiles files.
Listings == {[i \in 1..n |-> Name(i)] : n \in 0..MaxFiles}

\* os.path.join(out_dir, bname), out_dir = os.path.join(output_base_dir, tile)
Paths == TileDirs \X {Replace(n) : n \in Names}

\* An absent path, and the files GTiff Create and the later calls leave.
NoFile == [exists |-> FALSE, xsize |-> 0, ysize |-> 0, geotrans |-> <<>>,
           projection |-> FALSE, nodata |-> -1, array |-> <<>>]

\* driver.Create(bin_file_path, xsize, ysize, 1, GDT_Byte)
Created(w, h) == [NoFile EXCEPT !.exists = TRUE, !.xsize = w, !.ysize = h]

\* A file holding the complete output: band array, no-data 255, georeference.
Complete(f) ==
    /\ f.exists
    /\ f.geotrans # <<>>
    /\ f.projection
    /\ f.nodata = NoDataLabel
    /\ DOMAIN f.array = Cells(f.xsize, f.ysize)

\* ------------------------------------------------------------- constructor
\* __init__, core.py:37-74: what self.seed_db is after construction.
DecTreeInit(seed_db_arg, credentials, auth_token, status_code) ==
    IF seed_db_arg /\ credentials
    THEN IF auth_token /\ status_code = 200 THEN "True" ELSE "None"
    ELSE "unset"

\* ------------------------------------------------------------------ inputs
\* The land-cover raster covers [0,20] x [0,20] at 10 or 20 units per pixel.
LcRasters ==
    {Raster(0, 10, 20, -10, 2, 2), Raster(0, 20, 20, -10, 1, 2),
     Raster(0, 10, 20, -20, 2, 1)}

\* gdal.Warp(..., xRes=10, yRes=10): the target on the 10-unit grid, covering
\* the land-cover raster, touching it, or away from it.
TargetRasters ==
    {Raster(0, 10, 20, -10, 2, 2), Raster(20, 10, 20, -10, 2, 2),
     Raster(40, 10, 20, -10, 1, 1)}

Px(b, r, n, k) == [blue |-> b, red |-> r, nir |-> n, kisqr |-> k]

\* Band samples: co-detected, weak only, unchanged.
SeedPx == Px(6, -3, -3, 800)
WeakPx == Px(5, -2, -2, 1800)
ZeroPx == Px(0, 0, 0, 0)

\* What the three rasters hold over one window: land cover, false mask, bands.
Scenes ==
    {[lc |-> 0, fm |-> 0, px |-> SeedPx], [lc |-> 1, fm |-> 1, px |-> SeedPx]}

NullArray == Fill(0, 0, 0)
NullRaster == Raster(0, 0, 0, 0, 0, 0)

\* The datasets of one call, by the local that holds them (core.py:137, 151,
\* 162, 264, 273, 300).
Locals == {"lc_ds", "fm_ds", "trg_ds", "sum_ds", "prx_ds", "bin_ds"}

\* core.py:319-322: the locals set to None at the end of the normal path.
Closed == {"trg_ds", "sum_ds", "prx_ds", "bin_ds"}

\* return None, core.py:324: the frame goes away and with it the references
\* its locals hold, so the datasets still open are closed by their destructors.
Return(h) == h \ Locals

\* ------------------------------------------------------------------- run()
file == tiles[ti][fi]
bname == Replace(file)
bin_file_path == <<ti, bname>>

Files == {p \in TileDirs \X (1..MaxFiles) : p[2] <= Len(tiles[p[1]])}

\* The positions of the files after (t, f), in the order of the two loops.
After(t, f) == {p \in Files : p[1] > t \/ (p[1] = t /\ p[2] > f)}

First(S) == CHOOSE p \in S : \A q \in S : p[1] < q[1] \/ (p[1] = q[1] /\ p[2] <= q[2])

ClearLocals ==
    /\ trg_ds' = NullRaster
    /\ lc_sub_array' = NullArray
    /\ fm_sub_array' = NullArray
    /\ image_bands' = NullArray
    /\ total_change_strong' = <<>>
    /\ total_change_weak' = <<>>
    /\ sum_change' = <<>>
    /\ prx_array' = <<>>
    /\ total_change' = <<>>
    /\ final_array' = <<>>

\* An exception leaves __process_chmap and run(): nothing catches it.
Raise(e) ==
    /\ pc' = "raised"
    /\ exc' = e
    /\ ClearLocals

\* core.py:374-391: the two for loops take the next file, if any.
NextFile ==
    /\ pc = "loop"
    /\ IF After(ti, fi) = {}
       THEN /\ pc' = "done"
            /\ UNCHANGED <<ti, fi>>
       ELSE /\ ti' = First(After(ti, fi))[1]
            /\ fi' = First(After(ti, fi))[2]
            /\ pc' = "check"
    /\ calls' = 0
    /\ result' = "none"
    /\ UNCHANGED <<config, fs, exc, inputs, grids, handles>>

\* Mutant of OutputMissing: the existence test is lost, every file is processed.
OutputMissingAlways == TRUE

\* if not os.path.exists(bin_file_path)
OutputMissing == ~fs[bin_file_path].exists

\* core.py:393-396, 408: process the file, or take the already-created branch.
Check ==
    /\ pc = "check"
    /\ IF OutputMissing
       THEN /\ pc' = "open"
            /\ calls' = calls + 1
       ELSE /\ pc' = "seed_old"
            /\ UNCHANGED calls
    /\ UNCHANGED <<config, fs, ti, fi, result, exc, inputs, grids, handles>>

\* core.py:137-157: open the land-cover and then the false-mask raster;
\* sys.exit(1) when either cannot be opened. SystemExit is an exception: its
\* traceback keeps the frame, and the frame keeps the land-cover dataset that
\* was opened before the false mask failed.
Open ==
    /\ pc = "open"
    /\ \E opened \in SUBSET {"lc_ds", "fm_ds"} :
          /\ ("fm_ds" \in opened) => ("lc_ds" \in opened)
          /\ handles' = handles \cup opened
          /\ IF opened = {"lc_ds", "fm_ds"}
             THEN /\ pc' = "warp"
                  /\ UNCHANGED exc
             ELSE /\ pc' = "exited"
                  /\ exc' = "SystemExit"
    /\ UNCHANGED <<config, fs, loop, inputs, grids>>

\* core.py:161-171: gdal.Warp; a None dataset fails at trg_ds.GetGeoTransform().
Warp ==
    /\ pc = "warp"
    /\ \E warped \in BOOLEAN, t \in TargetRasters :
          IF warped
          THEN /\ trg_ds' = t
               /\ pc' = "align"
               /\ handles' = handles \cup {"trg_ds"}
               /\ UNCHANGED <<exc, lc_sub_array, fm_sub_array, image_bands, grids>>
          ELSE /\ Raise("AttributeError: NoneType")
               /\ UNCHANGED handles
    /\ UNCHANGED <<config, fs, loop>>

\* core.py:174-222: the intersection, the two pixel windows and the reads;
\* without an overlap the function returns None.
Align ==
    /\ pc = "align"
    /\ IF HasOverlap(lc_ds, trg_ds)
       THEN LET g == Intersection(getBBox(lc_ds), getBBox(trg_ds))
                lcw == PixelWindow(lc_ds, g)
                tw == PixelWindow(trg_ds, g)
            IN  \E sc \in Scenes :
                   /\ lc_sub_array' = ReadAsArray(lc_ds, lcw, sc.lc)
                   /\ fm_sub_array' = ReadAsArray(lc_ds, lcw, sc.fm)
                   /\ image_bands' = ReadAsArray(trg_ds, tw, sc.px)
                   /\ pc' = "classify"
                   /\ UNCHANGED <<trg_ds, grids, result, handles>>
       ELSE /\ pc' = "seed_new"
            /\ result' = "no_overlap"
            /\ handles' = Return(handles)
            /\ ClearLocals
    /\ UNCHANGED <<config, fs, ti, fi, calls, exc>>

\* core.py:225-258: the two threshold grids, the masks and their sum. The
\* boolean-mask assignment of line 251 raises IndexError when the land-cover
\* window and the target window differ in shape.
Classify ==
    /\ pc = "classify"
    /\ IF SameShape(lc_sub_array, image_bands)
       THEN /\ total_change_strong' = StrongGrid(image_bands, lc_sub_array)
            /\ total_change_weak' = WeakGrid(image_bands, lc_sub_array)
            /\ sum_change' = SumChange(StrongGrid(image_bands, lc_sub_array),
                                       WeakGrid(image_bands, lc_sub_array))
            /\ pc' = "proximity"
            /\ UNCHANGED <<exc, inputs, prx_array, total_change, final_array>>
       ELSE Raise("IndexError")
    /\ UNCHANGED <<config, fs, loop, handles>>

\* drv.Create(fname, xsize, ysize, ...): no dataset for an empty raster.
CanCreate(xsize, ysize) == xsize >= 1 /\ ysize >= 1

\* core.py:261-282: the two temporary rasters, ComputeProximity and the read
\* of its result; a None dataset fails at SetGeoTransform.
Proximity ==
    /\ pc = "proximity"
    /\ \E created \in BOOLEAN :
          IF created /\ CanCreate(lc_sub_array.xsize, lc_sub_array.ysize)
          THEN /\ prx_array' = ComputeProximity(sum_change)
               /\ pc' = "label"
               /\ handles' = handles \cup {"sum_ds", "prx_ds"}
               /\ UNCHANGED <<exc, inputs, total_change_strong,
                              total_change_weak, sum_change, total_change,
                              final_array>>
          ELSE /\ Raise("AttributeError: NoneType")
               /\ handles' \in {handles, handles \cup {"sum_ds"}}
    /\ UNCHANGED <<config, fs, loop>>

\* core.py:284-297: the confirmed changes, the labels and the veto.
Label ==
    /\ pc = "label"
    /\ total_change' = TotalChange(total_change_weak, prx_array)
    /\ final_array' = FinalArray(TotalChange(total_change_weak, prx_array),
                                 lc_sub_array, fm_sub_array)
    /\ pc' = "create"
    /\ UNCHANGED <<config, fs, loop, exc, inputs, total_change_strong,
                   total_change_weak, sum_change, prx_array, handles>>

\* new_trg_geoTrans, core.py:186-188: the target's pixel size at the origin of
\* the intersection.
new_trg_geoTrans ==
    LET g == Intersection(getBBox(lc_ds), getBBox(trg_ds))
    IN  <<g.xmin, trg_ds.xpixel, g.ymax, trg_ds.ypixel>>

\* core.py:299-300: driver.Create(bin_file_path, xsize, ysize, ...) puts the
\* file on disk; a None dataset fails at bin_ds.SetGeoTransform.
CreateOutput ==
    /\ pc = "create"
    /\ \E created \in BOOLEAN :
          IF created
          THEN /\ fs' = [fs EXCEPT ![bin_file_path] =
                            Created(lc_sub_array.xsize, lc_sub_array.ysize)]
               /\ pc' = "setmeta"
               /\ handles' = handles \cup {"bin_ds"}
               /\ UNCHANGED <<exc, inputs, grids>>
          ELSE /\ Raise("AttributeError: NoneType")
               /\ UNCHANGED <<fs, handles>>
    /\ UNCHANGED <<config, loop>>

\* core.py:301-307: SetGeoTransform, SetProjection, SetNoDataValue(255).
SetMetadata ==
    /\ pc = "setmeta"
    /\ fs' = [fs EXCEPT ![bin_file_path].geotrans = new_trg_geoTrans,
                        ![bin_file_path].projection = TRUE,
                        ![bin_file_path].nodata = NoDataLabel]
    /\ pc' = "write"
    /\ UNCHANGED <<config, loop, exc, inputs, grids, handles>>

\* core.py:308: bin_band.WriteArray(final_array); a failed write returns an
\* error code that the code does not look at.
WriteArray ==
    /\ pc = "write"
    /\ \E written \in BOOLEAN :
          IF written
          THEN fs' = [fs EXCEPT ![bin_file_path].array = final_array]
          ELSE UNCHANGED fs
    /\ pc' = "release"
    /\ UNCHANGED <<config, loop, exc, inputs, grids, handles>>

\* core.py:310-324: flush the bands, close the datasets, return None.
Release ==
    /\ pc = "release"
    /\ pc' = "seed_new"
    /\ result' = "returned"
    /\ handles' = Return(handles \ Closed)
    /\ ClearLocals
    /\ UNCHANGED <<config, fs, ti, fi, calls, exc>>

\* core.py:398-406 and 410-419: if self.seed_db: self.__db_seeder(temp_dir,
\* bin_file_path, 'CHMAP'). Reading self.seed_db raises AttributeError when the
\* constructor never set it; zf.write raises FileNotFoundError when the image
\* is not there; the upload may fail.
Seed ==
    /\ pc \in {"seed_new", "seed_old"}
    /\ CASE seed_db = "unset" -> Raise("AttributeError: seed_db")
         [] seed_db = "None" ->
                /\ pc' = "loop"
                /\ UNCHANGED <<exc, inputs, grids>>
         [] seed_db = "True" ->
                IF ~fs[bin_file_path].exists
                THEN Raise("FileNotFoundError")
                ELSE \E posted \in BOOLEAN :
                        IF posted
                        THEN /\ pc' = "loop"
                             /\ UNCHANGED <<exc, inputs, grids>>
                        ELSE Raise("ConnectionError")
    /\ UNCHANGED <<config, fs, loop, handles>>

\* run() is called again (a new process, or the same object once the
\* exception and its traceback are gone): nothing of the last run is open.
Rerun ==
    /\ pc \in {"done", "raised", "exited"}
    /\ pc' = "loop"
    /\ ti' = 1
    /\ fi' = 0
    /\ calls' = 0
    /\ result' = "none"
    /\ exc' = "none"
    /\ handles' = {}
    /\ UNCHANGED <<config, fs, inputs, grids>>

\* ------------------------------------------------------------ specification
Init ==
    /\ \E seed_db_arg \in BOOLEAN, credentials \in BOOLEAN, auth_token \in BOOLEAN,
          status_code \in {200, 204} :
          seed_db = DecTreeInit(seed_db_arg, credentials, auth_token, status_code)
    /\ lc_ds \in LcRasters
    /\ tiles \in [TileDirs -> Listings]
    /\ fs = [p \in Paths |-> NoFile]
    /\ ti = 1
    /\ fi = 0
    /\ pc = "loop"
    /\ exc = "none"
    /\ calls = 0
    /\ result = "none"
    /\ trg_ds = NullRaster
    /\ lc_sub_array = NullArray
    /\ fm_sub_array = NullArray
    /\ image_bands = NullArray
    /\ total_change_strong = <<>>
    /\ total_change_weak = <<>>
    /\ sum_change = <<>>
    /\ prx_array = <<>>
    /\ total_change = <<>>
    /\ final_array = <<>>
    /\ handles = {}

Next ==
    \/ NextFile
    \/ Check
    \/ Open
    \/ Warp
    \/ Align
    \/ Classify
    \/ Proximity
    \/ Label
    \/ CreateOutput
    \/ SetMetadata
    \/ WriteArray
    \/ Release
    \/ Seed
    \/ Rerun

Spec == Init /\ [][Next]_vars

\* --------------------------------------------- the pipeline over one window
\* Samples on, just inside and just outside every threshold of the classifier.
BlueVals == {1, 2, 3, 10, 11}
RedVals == {-6, -5, -3, -1, 0}
NirVals == {-6, -5, -3, -1, 0}
KisqrVals == {100, 150, 151, 1499, 1500, 1999, 2000}
LcVals == {0, 1, 2, 3, 4, 5, 6, 7}
FmVals == {0, 1, 2}

\* The cell beside the probed cell: co-detected, co-detected and masked, unchanged.
Neighbours ==
    {[px |-> SeedPx, lc |-> 0, fm |-> 0], [px |-> SeedPx, lc |-> 0, fm |-> 1],
     [px |-> ZeroPx, lc |-> 0, fm |-> 0]}

\* The state in which __process_chmap has read a window of w x h cells.
AtClassify(w, h, lc, fm, bands) ==
    /\ seed_db = "None"
    /\ lc_ds = Raster(0, 10, 10 * h, -10, w, h)
    /\ trg_ds = Raster(0, 10, 10 * h, -10, w, h)
    /\ tiles = [t \in TileDirs |-> IF t = 1 THEN <<Name(1)>> ELSE <<>>]
    /\ fs = [p \in Paths |-> NoFile]
    /\ ti = 1
    /\ fi = 1
    /\ pc = "classify"
    /\ exc = "none"
    /\ calls = 1
    /\ result = "none"
    /\ lc_sub_array = Array(w, h, lc)
    /\ fm_sub_array = Array(w, h, fm)
    /\ image_bands = Array(w, h, bands)
    /\ total_change_strong = <<>>
    /\ total_change_weak = <<>>
    /\ sum_change = <<>>
    /\ prx_array = <<>>
    /\ total_change = <<>>
    /\ final_array = <<>>
    /\ handles = {"lc_ds", "fm_ds", "trg_ds"}

Probe == <<1, 1>>

\* A window of two cells: one with any samples, beside one of the Neighbours.
InitProbe ==
    \E b \in BlueVals, r \in RedVals, n \in NirVals, k \in KisqrVals,
       l \in LcVals, m \in FmVals, nb \in Neighbours :
       AtClassify(2, 1,
                  [c \in Cells(2, 1) |-> IF c = Probe THEN l ELSE nb.lc],
                  [c \in Cells(2, 1) |-> IF c = Probe THEN m ELSE nb.fm],
                  [c \in Cells(2, 1) |-> IF c = Probe THEN Px(b, r, n, k) ELSE nb.px])

\* A window of GridW x GridH weak-only cells with up to MaxSeeds co-detected
\* cells placed anywhere in it; forest and rangeland alternate.
InitSeeds ==
    \E s \in [1..MaxSeeds -> Cells(GridW, GridH) \cup {<<0, 0>>}] :
       /\ \A i, j \in 1..MaxSeeds :
             i < j => (s[i][1] < s[j][1] \/ (s[i][1] = s[j][1] /\ s[i][2] <= s[j][2]))
       /\ AtClassify(GridW, GridH,
                     [c \in Cells(GridW, GridH) |-> (c[1] + c[2]) % 2],
                     [c \in Cells(GridW, GridH) |-> 0],
                     [c \in Cells(GridW, GridH) |->
                         IF \E i \in 1..MaxSeeds : s[i] = c THEN SeedPx ELSE WeakPx])

InitWindow == InitProbe \/ InitSeeds

NextWindow ==
    \/ Classify
    \/ Proximity
    \/ Label

SpecWindow == InitWindow /\ [][NextWindow]_vars

\* ------------------------------------------------------------------ claims
\* The window has been classified (Classify has run).
Classified == pc \in {"proximity", "label", "create"}

\* The window has been labelled (Label has run).
Labelled == pc = "create"

WindowCells == CellsOf(image_bands)

\* A co-detected cell: evidence 2.
IsSeed(c) == sum_change[c] = 2

\* C1: every output cell is 255 where the false mask is 1, else 0 where the
\* cell is confirmed and the land cover is 0, else 1 where it is confirmed and
\* the land cover is 1, else 255; so every output cell is 0, 1 or 255.
C1_OutputValue ==
    Labelled =>
        \A c \in WindowCells :
            /\ final_array[c] =
                  IF fm_sub_array.v[c] = 1 THEN 255
                  ELSE IF total_change[c] /\ lc_sub_array.v[c] = 0 THEN 0
                  ELSE IF total_change[c] /\ lc_sub_array.v[c] = 1 THEN 1
                  ELSE 255
            /\ final_array[c] \in {0, 1, 255}

\* A confirmed, unmasked cell of land cover 7 stays 255 beside a forest-loss
\* cell, and the mask value there is 2, not 1.
C1_Witness ==
    /\ Labelled
    /\ total_change[Probe]
    /\ lc_sub_array.v[Probe] = 7
    /\ fm_sub_array.v[Probe] = 2
    /\ final_array[Probe] = 255
    /\ final_array[<<2, 1>>] = 0

\* C6: STRONG implies WEAK per cell, as raw threshold evaluations and after
\* the excluded classes and the no-data cells are forced to false; the evidence
\* is 2 exactly on the STRONG cells (never 1 there).
C6_StrongImpliesWeak ==
    Classified =>
        \A c \in WindowCells :
            LET px == image_bands.v[c]
            IN  /\ StrongRaw(px.blue, px.red, px.nir, px.kisqr)
                      => WeakRaw(px.blue, px.red, px.nir, px.kisqr)
                /\ total_change_strong[c] => total_change_weak[c]
                /\ (lc_sub_array.v[c] \in {2, 3, 4, 5, 6} \/ px.kisqr >= 2000)
                      => (~total_change_strong[c] /\ ~total_change_weak[c])
                /\ (sum_change[c] = 2) <=> total_change_strong[c]
                /\ sum_change[c] \in {0, 1, 2}

\* A cell that passes both raw rules but lies in an excluded class is forced
\* to false in both grids, beside a co-detected cell.
C6_Witness ==
    /\ Classified
    /\ StrongRaw(image_bands.v[Probe].blue, image_bands.v[Probe].red,
                 image_bands.v[Probe].nir, image_bands.v[Probe].kisqr)
    /\ lc_sub_array.v[Probe] = 4
    /\ sum_change[Probe] = 0
    /\ sum_change[<<2, 1>>] = 2

\* C8: the confirmed grid is a subset of the WEAK grid, and with no
\* co-detected cell in the window nothing is confirmed, every output cell is
\* 255 and no exception is raised by the expansion or the labelling.
C8_ConfirmedSubsetOfWeak ==
    /\ Labelled => \A c \in WindowCells : total_change[c] => total_change_weak[c]
    /\ (pc \in {"label", "create"} /\ \A c \in WindowCells : ~IsSeed(c))
          => \A c \in WindowCells : prx_array[c] = NODATA
    /\ (Labelled /\ \A c \in WindowCells : ~IsSeed(c))
          => /\ \A c \in WindowCells : ~total_change[c] /\ final_array[c] = 255
             /\ exc = "none"

\* A window of weak cells without any co-detected cell has been labelled.
C8_Witness ==
    /\ Labelled
    /\ \A c \in WindowCells : ~IsSeed(c) /\ total_change_weak[c]
    /\ Cardinality(WindowCells) > 2

Abs(x) == IF x < 0 THEN -x ELSE x

\* The Chebyshev (chessboard) pixel distance between two cells.
Chebyshev(c, t) == Max(Abs(c[1] - t[1]), Abs(c[2] - t[2]))

\* C2 as stated: a WEAK cell is confirmed exactly when its Chebyshev distance
\* to the nearest co-detected cell is at most 5.
C2_ChebyshevRadius ==
    Labelled =>
        \A c \in WindowCells :
            total_change_weak[c] =>
                (total_change[c] <=>
                    \E t \in WindowCells : IsSeed(t) /\ Chebyshev(c, t) <= 5)

\* C2, amended: a WEAK cell is confirmed exactly when a co-detected cell lies
\* within Euclidean pixel distance 5 of it (dx*dx + dy*dy <= 25). A WEAK-only
\* cell five pixels from a seed along a row or a column is confirmed; one at
\* Chebyshev distance 6 or more from every seed is discarded and stays 255.
C2_EuclideanRadius ==
    Labelled =>
        \A c \in WindowCells :
            total_change_weak[c] =>
                /\ total_change[c] <=>
                      \E t \in WindowCells :
                          /\ IsSeed(t)
                          /\ (c[1] - t[1]) * (c[1] - t[1])
                                + (c[2] - t[2]) * (c[2] - t[2]) <= 25
                /\ (\E t \in WindowCells :
                       /\ IsSeed(t)
                       /\ Chebyshev(c, t) <= 5
                       /\ (c[1] = t[1] \/ c[2] = t[2]))
                      => total_change[c]
                /\ (\A t \in WindowCells : IsSeed(t) => Chebyshev(c, t) >= 6)
                      => (~total_change[c] /\ final_array[c] = 255)

\* One seed; a weak-only cell at offset (3, 4), distance exactly 5, is
\* confirmed; one at offset (4, 4), Chebyshev distance 4, is discarded; one at
\* Chebyshev distance 6 is discarded.
C2_Witness ==
    /\ Labelled
    /\ \E t \in WindowCells :
          /\ IsSeed(t)
          /\ \A u \in WindowCells : IsSeed(u) => u = t
          /\ <<t[1] + 6, t[2] + 4>> \in WindowCells
          /\ total_change_weak[<<t[1] + 3, t[2] + 4>>]
          /\ total_change[<<t[1] + 3, t[2] + 4>>]
          /\ total_change_weak[<<t[1] + 4, t[2] + 4>>]
          /\ ~total_change[<<t[1] + 4, t[2] + 4>>]
          /\ total_change_weak[<<t[1] + 6, t[2]>>]
          /\ ~total_change[<<t[1] + 6, t[2]>>]
          /\ total_change[<<t[1] + 5, t[2]>>]

\* mask_fchm of the window.
mask_fchm == MaskFchm(fm_sub_array)

\* The pipeline with the veto applied first: the masked cells are removed
\* from both threshold grids before the evidence is summed.
VetoFirstOutput ==
    LET strong == Assign(total_change_strong, mask_fchm, FALSE)
        weak == Assign(total_change_weak, mask_fchm, FALSE)
        prx == ComputeProximity(SumChange(strong, weak))
    IN  Labels(TotalChange(weak, prx), lc_sub_array)

\* C7 as stated: the veto applied twice is the veto applied once, and the veto
\* applied before the confirmed-change computation gives the same output grid.
C7_OrderIndependent ==
    Labelled =>
        /\ Veto(final_array, mask_fchm) = final_array
        /\ VetoFirstOutput = final_array

\* C7, amended: the veto applied twice is the veto applied once; applied to
\* the confirmed grid before the labels are assigned it gives the same output
\* grid as applied after; applied before the evidence is summed it gives the
\* same value on every masked cell and on every cell when no co-detected cell
\* is masked, and otherwise differs only on unmasked cells that the code
\* labels 0 or 1 and that lose their seed (they become 255).
C7_VetoIdempotent ==
    Labelled =>
        LET first == VetoFirstOutput
            seedMasked == \E t \in WindowCells : IsSeed(t) /\ mask_fchm[t]
        IN  /\ Veto(final_array, mask_fchm) = final_array
            /\ Labels(Assign(total_change, mask_fchm, FALSE), lc_sub_array) = final_array
            /\ \A c \in WindowCells :
                  \/ first[c] = final_array[c]
                  \/ /\ ~mask_fchm[c]
                     /\ first[c] = 255
                     /\ final_array[c] \in {0, 1}
                     /\ seedMasked
            /\ \A c \in WindowCells : mask_fchm[c] => first[c] = final_array[c]
            /\ ~seedMasked => first = final_array

\* A masked co-detected cell beside an unmasked weak-only rangeland cell: the
\* code labels the weak cell 1, the veto-first pipeline leaves it 255.
C7_Witness ==
    /\ Labelled
    /\ IsSeed(<<2, 1>>)
    /\ mask_fchm[<<2, 1>>]
    /\ final_array[<<2, 1>>] = 255
    /\ sum_change[Probe] = 1
    /\ final_array[Probe] = 1
    /\ VetoFirstOutput[Probe] = 255

\* run() has ended: normally, by an exception, or by sys.exit.
Ended == pc \in {"done", "raised", "exited"}

\* The exceptions that come from a raster or network operation failing.
EnvironmentFailures == {"SystemExit", "AttributeError: NoneType", "ConnectionError"}

\* C3 as stated: when the footprints do not overlap, the file's processing
\* creates no output file and no exception leaves the pipeline, for every
\* constructor configuration.
C3_NoOverlapIsQuiet ==
    result = "no_overlap" => (~fs[bin_file_path].exists /\ exc = "none")

\* C4 as stated: whatever fails, an output path is absent or holds the
\* complete output once the code has finished writing it, so the
\* already-created branch of run() never meets an incomplete file.
C4_NoPartialOutput ==
    /\ \A p \in Paths :
          \/ ~fs[p].exists
          \/ Complete(fs[p])
          \/ (pc \in {"setmeta", "write"} /\ p = bin_file_path)
    /\ pc = "seed_old" => Complete(fs[bin_file_path])

\* An output being written by the call in flight (between Create and the end
\* of WriteArray).
InFlight(p) == pc \in {"setmeta", "write"} /\ p = bin_file_path

\* C5: the output name is the input name with CHMAP replaced by BIN; when the
\* output path exists run() takes the already-created branch, does not call
\* the pipeline and leaves the file as it is; a file that exists and is not
\* being written by the call in flight never changes, over any number of runs.
C5_ExistingOutputUntouched ==
    [][/\ \A p \in Paths :
             (fs[p].exists /\ ~InFlight(p)) => fs'[p] = fs[p]
       /\ (pc = "check" /\ fs[bin_file_path].exists)
             => (pc' = "seed_old" /\ calls' = calls /\ fs' = fs)
       /\ pc = "seed_old" => (fs' = fs /\ calls' = 0 /\ pc' \in {"loop", "raised"})
       /\ pc \in {"check", "seed_old"}
             => /\ Len(bin_file_path[2]) = Len(file)
                /\ \A i \in 1..Len(file) :
                      bin_file_path[2][i] = (IF file[i] = "CHMAP" THEN "BIN" ELSE file[i])
                /\ bin_file_path[1] = ti
      ]_vars

\* run() is in the already-created branch for a complete output that a
\* previous run wrote.
C5_Witness ==
    /\ pc = "seed_old"
    /\ Complete(fs[bin_file_path])
    /\ calls = 0

\* C9 as stated, for runs in which no raster or network operation fails and
\* the two pixel windows agree: the pipeline is called at most once per file,
\* and when run() ends every file of every tile has been reached, whatever the
\* constructor configuration.
C9_EveryFileReached ==
    /\ calls <= 1
    /\ (Ended /\ exc \notin EnvironmentFailures \cup {"IndexError"})
          => (pc = "done" /\ After(ti, fi) = {})

\* The two pixel windows of the file in flight differ in width or height.
WindowsDiffer ==
    LET g == Intersection(getBBox(lc_ds), getBBox(trg_ds))
        lcw == PixelWindow(lc_ds, g)
        tw == PixelWindow(trg_ds, g)
    IN  lcw.xsize # tw.xsize \/ lcw.ysize # tw.ysize

\* C10: when the land-cover window and the target window differ in width or
\* height, the classification step raises (IndexError) and leaves the output
\* tree as it was; the steps after it, and any output they create, only ever
\* see arrays of one common shape.
C10_ShapeMismatchRaises ==
    [][/\ (pc = "classify" /\ WindowsDiffer)
             => (pc' = "raised" /\ exc' = "IndexError" /\ fs' = fs)
       /\ pc' \in {"proximity", "label", "create", "setmeta", "write"}
             => /\ SameShape(lc_sub_array', image_bands')
                /\ DOMAIN sum_change' = CellsOf(image_bands')
                /\ DOMAIN sum_change' = CellsOf(lc_sub_array')
       /\ (pc = "write" /\ fs'[bin_file_path] # fs[bin_file_path])
             => /\ DOMAIN fs'[bin_file_path].array = CellsOf(image_bands)
                /\ fs'[bin_file_path].xsize = image_bands.xsize
                /\ fs'[bin_file_path].ysize = image_bands.ysize
      ]_vars

\* The mismatch has raised IndexError and the file's output does not exist.
C10_Witness ==
    /\ pc = "raised"
    /\ exc = "IndexError"
    /\ ~fs[bin_file_path].exists

\* No call of __process_chmap is in progress: run() is between files, in its
\* seeding step, or has ended.
OutsidePipeline == pc \in {"loop", "check", "seed_new", "seed_old", "done", "exited"}

\* C11 as stated: every raster dataset opened by one call of the pipeline is
\* released before the call ends, on normal completion, on the early return
\* without an overlap and on the abort taken when a raster cannot be opened;
\* none is open when the next file is handled.
C11_HandlesReleased == OutsidePipeline => handles = {}

====
